---- MODULE Spec2Model ----
(***************************************************************************)
(* Mini-Reconciliation-Tool: the reconciliation engine.                    *)
(*                                                                         *)
(*   Reconciler.reconcile = merge_dataframes -> classify_merged_rows       *)
(*                          -> finalize_results                            *)
(*                                                                         *)
(* A DataFrame is modelled by its column labels (a sequence: pandas keeps  *)
(* column order and allows repeated labels), its rows (each a sequence of  *)
(* cell values, one per column) and its row index (the labels pandas       *)
(* carries through boolean filtering and column selection).                *)
(* A cell value is a record [kind, v]: a number, a text or the null value  *)
(* (NaN / None); the payload v is kept as a string so that a number and a  *)
(* text with the same spelling stay different values.                      *)
(***************************************************************************)
EXTENDS Integers, Sequences, FiniteSets, TLC

VARIABLES
  config,        \* Reconciler.config, loaded at construction
  df_internal,   \* the caller's internal dataset (passed by reference)
  df_provider,   \* the caller's provider dataset (passed by reference)
  pc,            \* "idle" | "done" | "refinalized"
  error,         \* exception that left the last reconcile call, or "none"
  stages,        \* stages entered by the last reconcile call, in order
  merged,        \* merge_dataframes' table of the last call
  src,           \* per merged row: <<internal row, provider row>>, 0 = absent
  results,       \* classify_merged_rows' dictionary of the last call
  final,         \* what the last reconcile call returned
  again,         \* finalize_results applied to `final`
  ncalls,        \* number of reconcile calls made on this instance
  config0,       \* the configuration as loaded by the constructor
  given_internal,\* the internal dataset as the caller loaded it
  given_provider,\* the provider dataset as the caller loaded it
  internal_file, \* web app: content of the internal file_uploader widget
  provider_file, \* web app: content of the provider file_uploader widget
  ss_df_internal,\* web app: st.session_state.df_internal
  ss_df_provider,\* web app: st.session_state.df_provider
  ss_results,    \* web app: st.session_state.results
  run_outcome,   \* web app: what run_form did in the last script run
  invoked_with   \* web app: the datasets reconcile was last invoked with

enginevars == <<config, df_internal, df_provider, pc, error, stages, merged,
                src, results, final, again, ncalls, config0, given_internal,
                given_provider>>

appvars == <<internal_file, provider_file, ss_df_internal, ss_df_provider,
             ss_results, run_outcome, invoked_with>>

vars == <<enginevars, appvars>>

-----------------------------------------------------------------------------
(* Bounds *)

MaxRows == 2
MaxCalls == 2

-----------------------------------------------------------------------------
(* Cell values *)

Num(s) == [kind |-> "num", v |-> s]
Text(s) == [kind |-> "text", v |-> s]
Null == [kind |-> "null", v |-> "NaN"]

IsNull(x) == x.kind = "null"

\* pandas element-wise `==` (classifier.py:46): a null on either side
\* compares unequal, otherwise the values are compared as Python objects.
PdEq(a, b) == ~IsNull(a) /\ ~IsNull(b) /\ a = b

\* pandas element-wise `!=` (classifier.py:64): the negation of `==`,
\* so a null on either side compares different.
PdNe(a, b) == IsNull(a) \/ IsNull(b) \/ a # b

-----------------------------------------------------------------------------
(* Sequences and frames *)

Has(s, x) == \E i \in 1..Len(s) : s[i] = x

Positions(s, x) == {i \in 1..Len(s) : s[i] = x}

FirstPos(s, x) == CHOOSE i \in Positions(s, x) : \A j \in Positions(s, x) : i <= j

RECURSIVE Flatten(_)
Flatten(ss) == IF ss = <<>> THEN <<>> ELSE Head(ss) \o Flatten(Tail(ss))

\* the positions i of 1..n with keep[i], in increasing order
RECURSIVE KeptFrom(_, _, _)
KeptFrom(keep, i, n) ==
  IF i > n THEN <<>>
  ELSE (IF keep[i] THEN <<i>> ELSE <<>>) \o KeptFrom(keep, i + 1, n)

Frame(cols, rows) == [cols |-> cols, rows |-> rows,
                      index |-> [i \in 1..Len(rows) |-> i]]

NoFrame == [cols |-> <<>>, rows |-> <<>>, index |-> <<>>]

Column(df, c) == [i \in 1..Len(df.rows) |-> df.rows[i][FirstPos(df.cols, c)]]

\* df[mask]: boolean indexing keeps the rows whose mask is True, in order,
\* with their index labels
BoolIndex(df, mask) ==
  LET kept == KeptFrom(mask, 1, Len(df.rows))
  IN [cols |-> df.cols,
      rows |-> [i \in 1..Len(kept) |-> df.rows[kept[i]]],
      index |-> [i \in 1..Len(kept) |-> df.index[kept[i]]]]

\* df[name] = scalar: overwrites the column when the label exists, appends a
\* new last column otherwise
SetColumn(df, name, val) ==
  IF Has(df.cols, name)
  THEN [df EXCEPT !.rows = [i \in 1..Len(df.rows) |->
          [j \in 1..Len(df.cols) |->
             IF df.cols[j] = name THEN val ELSE df.rows[i][j]]]]
  ELSE [df EXCEPT !.cols = Append(df.cols, name),
                  !.rows = [i \in 1..Len(df.rows) |-> Append(df.rows[i], val)]]

\* df[cols] with a list of labels: for each label in turn, every column of
\* df carrying that label
SelectColumns(df, cols) ==
  LET pos == Flatten([k \in 1..Len(cols) |->
                 KeptFrom([j \in 1..Len(df.cols) |-> df.cols[j] = cols[k]],
                          1, Len(df.cols))])
  IN [cols |-> [k \in 1..Len(pos) |-> df.cols[pos[k]]],
      rows |-> [i \in 1..Len(df.rows) |->
                 [k \in 1..Len(pos) |-> df.rows[i][pos[k]]]],
      index |-> df.index]

-----------------------------------------------------------------------------
(* merge_dataframes *)

MergeFail(e) == [err |-> e, table |-> NoFrame, src |-> <<>>]

\* the provider rows whose key equals k, in provider order
MatchesOf(k, right, rkey) ==
  KeptFrom([j \in 1..Len(right.rows) |-> right.rows[j][rkey] = k],
           1, Len(right.rows))

\* (an inner join: the rows of one side only are lost)
JoinPairsInner(left, right, key) ==
  LET lkey == FirstPos(left.cols, key)
      rkey == FirstPos(right.cols, key)
  IN Flatten([i \in 1..Len(left.rows) |->
        LET ms == MatchesOf(left.rows[i][lkey], right, rkey)
        IN [n \in 1..Len(ms) |-> <<i, ms[n]>>]])

\* outer join: every internal row paired with each provider row of the same
\* key (or with none), then the provider rows no internal row matched
JoinPairs(left, right, key) ==
  LET lkey == FirstPos(left.cols, key)
      rkey == FirstPos(right.cols, key)
      ofLeft == Flatten([i \in 1..Len(left.rows) |->
                  LET ms == MatchesOf(left.rows[i][lkey], right, rkey)
                  IN IF ms = <<>> THEN << <<i, 0>> >>
                     ELSE [n \in 1..Len(ms) |-> <<i, ms[n]>>]])
      unmatched == KeptFrom([j \in 1..Len(right.rows) |->
                      \A i \in 1..Len(left.rows) :
                         left.rows[i][lkey] # right.rows[j][rkey]],
                      1, Len(right.rows))
  IN ofLeft \o [n \in 1..Len(unmatched) |-> <<0, unmatched[n]>>]

Indicator(p) ==
  IF p[1] # 0 /\ p[2] # 0 THEN Text("both")
  ELSE IF p[1] # 0 THEN Text("left_only") ELSE Text("right_only")

\* the table DataFrame.merge(how='outer', on=key, suffixes=...,
\* indicator=name) returns or the exception it raises, as called at
\* merger.py:36-42; `src` records where each merged row comes from
MergeTable(df_i, df_p, cfg) ==
  LET key == cfg.merge_key
      ind == cfg.merge_indicator
      suf == cfg.merge_suffixes
  IN
  IF ~Has(df_i.cols, key) \/ ~Has(df_p.cols, key)
  THEN MergeFail("KeyError")
  ELSE IF Has(df_i.cols, ind) \/ Has(df_p.cols, ind)
  THEN MergeFail("ValueError")
  ELSE
    LET rpos == KeptFrom([j \in 1..Len(df_p.cols) |-> df_p.cols[j] # key],
                         1, Len(df_p.cols))
        lcols == [j \in 1..Len(df_i.cols) |->
                   IF df_i.cols[j] # key /\ Has(df_p.cols, df_i.cols[j])
                   THEN df_i.cols[j] \o suf[1] ELSE df_i.cols[j]]
        rcols == [n \in 1..Len(rpos) |->
                   IF Has(df_i.cols, df_p.cols[rpos[n]])
                   THEN df_p.cols[rpos[n]] \o suf[2] ELSE df_p.cols[rpos[n]]]
        pairs == JoinPairs(df_i, df_p, key)
        rkey == FirstPos(df_p.cols, key)
        Row(p) ==
          [j \in 1..Len(df_i.cols) |->
             IF p[1] # 0 THEN df_i.rows[p[1]][j]
             ELSE IF df_i.cols[j] = key THEN df_p.rows[p[2]][rkey]
             ELSE Null]
          \o [n \in 1..Len(rpos) |->
             IF p[2] # 0 THEN df_p.rows[p[2]][rpos[n]] ELSE Null]
          \o <<Indicator(p)>>
    IN [err |-> "none",
        table |-> Frame(lcols \o rcols \o <<ind>>,
                        [n \in 1..Len(pairs) |-> Row(pairs[n])]),
        src |-> pairs]

\* (the indicator is written on the caller's internal frame)
OuterMergeInPlace(df_i, df_p, cfg) ==
  LET r == MergeTable(df_i, df_p, cfg)
  IN r @@ [left |-> IF r.err = "none"
                    THEN SetColumn(df_i, cfg.merge_indicator, Text("left_only"))
                    ELSE df_i,
           right |-> df_p]

\* df_internal.merge(df_provider, ...): the result, and the two frames after
\* the call -- pandas merges copies, so the caller's frames are as before
OuterMerge(df_i, df_p, cfg) ==
  MergeTable(df_i, df_p, cfg) @@ [left |-> df_i, right |-> df_p]

\* (the KeyError is logged and an empty table handed on)
merge_dataframes_swallow(df_i, df_p, cfg) ==
  LET r == OuterMerge(df_i, df_p, cfg)
  IN IF r.err = "KeyError" THEN [r EXCEPT !.err = "none"] ELSE r

\* merger.py:35-47: the KeyError of a missing merge key is logged and raised
\* again; every other outcome passes through
merge_dataframes(df_i, df_p, cfg) == OuterMerge(df_i, df_p, cfg)

-----------------------------------------------------------------------------
(* classify_merged_rows *)

Categories == {"matched", "only_internal", "only_provider", "mismatched"}

NoTables == [k \in {} |-> NoFrame]

LeftCol(pair) == pair.base \o pair.suffixes[1]
RightCol(pair) == pair.base \o pair.suffixes[2]

\* classifier.py:42-46: origin is `both` and every pair compares equal
MatchCond(m, cfg) ==
  [i \in 1..Len(m.rows) |->
     /\ PdEq(Column(m, cfg.merge_indicator)[i], Text(cfg.merge_status.both))
     /\ \A n \in 1..Len(cfg.comparison_pairs) :
          PdEq(Column(m, LeftCol(cfg.comparison_pairs[n]))[i],
               Column(m, RightCol(cfg.comparison_pairs[n]))[i])]

\* classifier.py:59-69: origin is `both`, and-ed with the or of the pairs'
\* differences only when there is at least one pair
MismatchCond(m, cfg) ==
  [i \in 1..Len(m.rows) |->
     /\ PdEq(Column(m, cfg.merge_indicator)[i], Text(cfg.merge_status.both))
     /\ \/ cfg.comparison_pairs = <<>>
        \/ \E n \in 1..Len(cfg.comparison_pairs) :
             PdNe(Column(m, LeftCol(cfg.comparison_pairs[n]))[i],
                  Column(m, RightCol(cfg.comparison_pairs[n]))[i])]

OriginCond(m, cfg, marker) ==
  [i \in 1..Len(m.rows) |-> PdEq(Column(m, cfg.merge_indicator)[i], Text(marker))]

classify_merged_rows(m, cfg) ==
  IF \/ ~Has(m.cols, cfg.merge_indicator)
     \/ \E n \in 1..Len(cfg.comparison_pairs) :
          \/ ~Has(m.cols, LeftCol(cfg.comparison_pairs[n]))
          \/ ~Has(m.cols, RightCol(cfg.comparison_pairs[n]))
  THEN [err |-> "KeyError", tables |-> NoTables]
  ELSE
    [err |-> "none",
     tables |->
       [k \in Categories |->
          SetColumn(
            BoolIndex(m,
              CASE k = "matched" -> MatchCond(m, cfg)
                [] k = "only_internal" ->
                     OriginCond(m, cfg, cfg.merge_status.left_only)
                [] k = "only_provider" ->
                     OriginCond(m, cfg, cfg.merge_status.right_only)
                [] k = "mismatched" -> MismatchCond(m, cfg)),
            "result", Text(cfg.result_labels[k]))]]

-----------------------------------------------------------------------------
(* finalize_results *)

Rename(cols, map) ==
  [j \in 1..Len(cols) |-> IF cols[j] \in DOMAIN map THEN map[cols[j]] ELSE cols[j]]

\* (the indicator column is not dropped)
FinalColsKeepMarker(df, cfg) ==
  IF Has(df.cols, "result") THEN df.cols ELSE Append(df.cols, "result")

\* (the first column is taken for a saved index and dropped as well)
FinalColsDropFirst(df, cfg) ==
  LET kept == KeptFrom([j \in 1..Len(df.cols) |->
                          j > 1 /\ df.cols[j] # cfg.merge_indicator],
                       1, Len(df.cols))
      cols == [n \in 1..Len(kept) |-> df.cols[kept[n]]]
  IN IF Has(cols, "result") THEN cols ELSE Append(cols, "result")

\* finalizer.py:39-41
FinalCols(df, cfg) ==
  LET kept == KeptFrom([j \in 1..Len(df.cols) |-> df.cols[j] # cfg.merge_indicator],
                       1, Len(df.cols))
      cols == [n \in 1..Len(kept) |-> df.cols[kept[n]]]
  IN IF Has(cols, "result") THEN cols ELSE Append(cols, "result")

\* (rows that repeat an earlier row are dropped)
FinalizeFrameDedup(df, cfg) ==
  LET sel == SelectColumns(df, FinalCols(df, cfg))
      firsts == KeptFrom([i \in 1..Len(sel.rows) |->
                   \A j \in 1..(i - 1) : sel.rows[j] # sel.rows[i]],
                   1, Len(sel.rows))
  IN [cols |-> Rename(sel.cols, cfg.rename_columns),
      rows |-> [i \in 1..Len(firsts) |-> sel.rows[firsts[i]]],
      index |-> [i \in 1..Len(firsts) |-> sel.index[firsts[i]]]]

\* finalizer.py:42-43 on one category's frame
FinalizeFrame(df, cfg) ==
  LET sel == SelectColumns(df, FinalCols(df, cfg))
  IN [sel EXCEPT !.cols = Rename(sel.cols, cfg.rename_columns)]

\* (a category without rows is left out of the returned dictionary)
finalize_results_skip_empty(res, cfg) ==
  LET keep == {k \in DOMAIN res : res[k].rows # <<>>}
  IN [err |-> "none", tables |-> [k \in keep |-> FinalizeFrame(res[k], cfg)]]

finalize_results(res, cfg) ==
  IF \E k \in DOMAIN res : \E n \in 1..Len(FinalCols(res[k], cfg)) :
        ~Has(res[k].cols, FinalCols(res[k], cfg)[n])
  THEN [err |-> "KeyError", tables |-> NoTables]
  ELSE [err |-> "none",
        tables |-> [k \in DOMAIN res |-> FinalizeFrame(res[k], cfg)]]

-----------------------------------------------------------------------------
(* Reconciler.reconcile *)

reconcile(cfg, df_i, df_p) ==
  LET m == merge_dataframes(df_i, df_p, cfg)
      c == classify_merged_rows(m.table, cfg)
      f == finalize_results(c.tables, cfg)
      post == [left |-> m.left, right |-> m.right]
  IN IF m.err # "none"
     THEN [err |-> m.err, stages |-> <<"merge">>, merged |-> NoFrame,
           src |-> <<>>, results |-> NoTables, final |-> NoTables] @@ post
     ELSE IF c.err # "none"
     THEN [err |-> c.err, stages |-> <<"merge", "classify">>,
           merged |-> m.table, src |-> m.src, results |-> NoTables,
           final |-> NoTables] @@ post
     ELSE IF f.err # "none"
     THEN [err |-> f.err, stages |-> <<"merge", "classify", "finalize">>,
           merged |-> m.table, src |-> m.src, results |-> c.tables,
           final |-> NoTables] @@ post
     ELSE [err |-> "none", stages |-> <<"merge", "classify", "finalize">>,
           merged |-> m.table, src |-> m.src, results |-> c.tables,
           final |-> f.tables] @@ post

-----------------------------------------------------------------------------
(* Configuration: the dictionary ConfigLoader.load returns *)

AmountPair == [base |-> "amount", suffixes |-> <<"_internal", "_provider">>]
StatusPair == [base |-> "status", suffixes |-> <<"_internal", "_provider">>]

PairLists == {<<>>, <<AmountPair>>, <<AmountPair, StatusPair>>}

NoRenames == [c \in {} |-> ""]

DisplayRenames ==
  [c \in {"transaction_reference", "amount_internal", "amount_provider",
          "status_internal", "status_provider"} |->
     CASE c = "transaction_reference" -> "Transaction Reference"
       [] c = "amount_internal" -> "Amount (Internal)"
       [] c = "amount_provider" -> "Amount (Provider)"
       [] c = "status_internal" -> "Status (Internal)"
       [] c = "status_provider" -> "Status (Provider)"]

RenameMaps ==
  { NoRenames,
    DisplayRenames,
    "result" :> "Outcome",
    ("amount_internal" :> "status_internal") @@ ("status_internal" :> "Status"),
    "status_provider" :> "_merge",
    "amount_internal" :> "amount_provider",
    "amount_internal" :> "result" }

IndicatorNames == {"_merge", "result"}

BaseConfig ==
  [merge_key |-> "transaction_reference",
   merge_suffixes |-> <<"_internal", "_provider">>,
   merge_indicator |-> "_merge",
   merge_status |-> [both |-> "both", left_only |-> "left_only",
                     right_only |-> "right_only"],
   comparison_pairs |-> <<AmountPair, StatusPair>>,
   result_labels |-> [matched |-> "Matched", only_internal |-> "Only in Internal",
                      only_provider |-> "Only in Provider",
                      mismatched |-> "Mismatched"],
   rename_columns |-> DisplayRenames]

-----------------------------------------------------------------------------
(* Input datasets *)

StdCols == <<"transaction_reference", "amount", "status">>

InternalRows ==
  { <<Text("T1"), Num("10"), Text("paid")>>,
    <<Text("T1"), Null, Text("paid")>>,
    <<Text("T1"), Num("10"), Text("failed")>>,
    <<Text("T2"), Num("10"), Text("paid")>> }

ProviderRows ==
  { <<Text("T1"), Num("10"), Text("paid")>>,
    <<Text("T1"), Text("10"), Text("paid")>>,
    <<Text("T1"), Null, Text("paid")>>,
    <<Text("T3"), Num("10"), Text("paid")>> }

SeqsUpTo(S, n) == UNION {[1..m -> S] : m \in 0..n}

\* column layouts a caller may hand in: no column at all, the required
\* columns, an extra `result` column, no key column, a column named like
\* the default indicator, no status column
Layouts ==
  { <<>>,
    StdCols,
    <<"transaction_reference", "amount", "status", "result">>,
    <<"amount", "status">>,
    <<"transaction_reference", "amount", "status", "_merge">>,
    <<"transaction_reference", "amount">> }

CellFor(col, side) ==
  CASE col = "transaction_reference" -> Text("T1")
    [] col = "amount" -> IF side = "internal" THEN Num("10") ELSE Num("12")
    [] col = "status" -> Text("paid")
    [] OTHER -> Text(side)

LayoutRow(l, side) == [j \in 1..Len(l) |-> CellFor(l[j], side)]

LayoutFrames(side) ==
  UNION {{Frame(l, <<>>)} \cup
           (IF l = <<>> THEN {} ELSE {Frame(l, <<LayoutRow(l, side)>>)}) :
         l \in Layouts}

ReloadFrames(side) ==
  {Frame(StdCols, <<>>), Frame(StdCols, <<LayoutRow(StdCols, side)>>)}

-----------------------------------------------------------------------------
(* Web app (app.py): uploader widgets and session state *)

REQUIRED_COLUMNS == <<"transaction_reference", "amount", "status">>

\* what a file_uploader widget returns: None, or the uploaded file
NoFile == [present |-> FALSE, readable |-> FALSE, table |-> NoFrame]
CsvFile(t) == [present |-> TRUE, readable |-> TRUE, table |-> t]
Unreadable == [present |-> TRUE, readable |-> FALSE, table |-> NoFrame]

\* a session dataset: None, or a DataFrame
NoneDf == [none |-> TRUE, table |-> NoFrame]
SomeDf(t) == [none |-> FALSE, table |-> t]

\* st.session_state.results: None, or the dictionary reconcile returned
NoneResults == [none |-> TRUE, tables |-> NoTables]
SomeResults(t) == [none |-> FALSE, tables |-> t]

\* the files a user may upload: not a CSV, header only, no status column,
\* the required columns, the required columns and one named `_merge`
UploadableFiles(side) ==
  { Unreadable,
    CsvFile(Frame(StdCols, <<>>)),
    CsvFile(Frame(<<"transaction_reference", "amount">>,
                  <<LayoutRow(<<"transaction_reference", "amount">>, side)>>)),
    CsvFile(Frame(StdCols, <<LayoutRow(StdCols, side)>>)),
    CsvFile(Frame(StdCols, <<LayoutRow(StdCols, "internal"),
                             <<Text("T2"), Num("10"), Text("paid")>> >>)),
    CsvFile(Frame(<<"transaction_reference", "amount", "status", "_merge">>,
                  <<LayoutRow(<<"transaction_reference", "amount", "status",
                                "_merge">>, side)>>)) }

\* DataFrame.empty: no row or no column
IsEmpty(t) == t.rows = <<>> \/ t.cols = <<>>

\* app.py:54-81
validate_file(file) ==
  IF ~file.readable THEN NoneDf
  ELSE IF IsEmpty(file.table) THEN NoneDf
  ELSE IF \E n \in 1..Len(REQUIRED_COLUMNS) :
            ~Has(file.table.cols, REQUIRED_COLUMNS[n]) THEN NoneDf
  ELSE SomeDf(file.table)

\* (the session dataset is assigned only when validation succeeds)
ValidateImmediatelyKeepOld(session_df, file) ==
  IF file.present /\ validate_file(file) # NoneDf
  THEN validate_file(file) ELSE session_df

\* app.py:94-96 and 98-100: with a file in the widget the session dataset
\* becomes what validate_file returns; without one it is left as it is
ValidateImmediately(session_df, file) ==
  IF file.present THEN validate_file(file) ELSE session_df

\* app.py:107
RunGuard(a, b) == a # NoneDf /\ b # NoneDf

\* app.py:104-119 after the validation of this script run: the outcome of
\* run_form when the button was pressed, and the session results after it
RunForm(a, b, res) ==
  IF RunGuard(a, b)
  THEN LET r == reconcile(BaseConfig, a.table, b.table)
       IN [outcome |-> IF r.err = "none" THEN "returned" ELSE "raised",
           results |-> IF r.err = "none" THEN SomeResults(r.final) ELSE res,
           args |-> <<a, b>>]
  ELSE [outcome |-> "warning", results |-> res, args |-> <<NoneDf, NoneDf>>]

\* app.py:44-50 in a new browser session, the widgets empty
SessionStart ==
  /\ internal_file = NoFile
  /\ provider_file = NoFile
  /\ ss_df_internal = NoneDf
  /\ ss_df_provider = NoneDf
  /\ ss_results = NoneResults
  /\ run_outcome = "none"
  /\ invoked_with = <<NoneDf, NoneDf>>

\* one script run in which run_form is not submitted and the clear button
\* is not pressed, with the widgets holding fi and fp
Rerun(fi, fp) ==
  /\ internal_file' = fi
  /\ provider_file' = fp
  /\ ss_df_internal' = ValidateImmediately(ss_df_internal, fi)
  /\ ss_df_provider' = ValidateImmediately(ss_df_provider, fp)
  /\ run_outcome' = "none"
  /\ UNCHANGED <<ss_results, invoked_with>>
  /\ UNCHANGED enginevars

\* the user puts a file in the internal uploader (replacing any other)
UploadInternal ==
  \E f \in UploadableFiles("internal") :
    /\ f.present
    /\ Rerun(f, provider_file)

\* the user puts a file in the provider uploader (replacing any other)
UploadProvider ==
  \E f \in UploadableFiles("provider") :
    /\ f.present
    /\ Rerun(internal_file, f)

\* the user removes the file from the internal uploader
RemoveInternal == internal_file.present /\ Rerun(NoFile, provider_file)

\* the user removes the file from the provider uploader
RemoveProvider == provider_file.present /\ Rerun(internal_file, NoFile)

\* the user presses "Run Reconciliation": one script run with submitted
RunClick ==
  /\ \E a \in {ValidateImmediately(ss_df_internal, internal_file)} :
     \E b \in {ValidateImmediately(ss_df_provider, provider_file)} :
     \E f \in {RunForm(a, b, ss_results)} :
        /\ ss_df_internal' = a
        /\ ss_df_provider' = b
        /\ ss_results' = f.results
        /\ run_outcome' = f.outcome
        /\ invoked_with' = f.args
  /\ UNCHANGED <<internal_file, provider_file>>
  /\ UNCHANGED enginevars

\* the user presses "Clear all & start over" (shown while the session
\* results are truthy): the three session entries are set to None and
\* st.rerun() runs the script again, which validates the files the widgets
\* still hold
ClearClick ==
  /\ ~ss_results.none
  /\ ss_df_internal' = ValidateImmediately(NoneDf, internal_file)
  /\ ss_df_provider' = ValidateImmediately(NoneDf, provider_file)
  /\ ss_results' = NoneResults
  /\ run_outcome' = "none"
  /\ UNCHANGED <<internal_file, provider_file, invoked_with>>
  /\ UNCHANGED enginevars

-----------------------------------------------------------------------------
(* State machine *)

NoOutcome == [err |-> "none", tables |-> NoTables]

InitRest ==
  /\ pc = "idle"
  /\ error = "none"
  /\ stages = <<>>
  /\ merged = NoFrame
  /\ src = <<>>
  /\ results = NoTables
  /\ final = NoTables
  /\ again = NoOutcome
  /\ ncalls = 0
  /\ config0 = config
  /\ given_internal = df_internal
  /\ given_provider = df_provider
  /\ SessionStart

\* the required columns with varied row content, the display configuration
\* with each comparison-pair list
InitData ==
  /\ \E pl \in PairLists : config = [BaseConfig EXCEPT !.comparison_pairs = pl]
  /\ \E rows \in SeqsUpTo(InternalRows, MaxRows) : df_internal = Frame(StdCols, rows)
  /\ \E rows \in SeqsUpTo(ProviderRows, MaxRows) : df_provider = Frame(StdCols, rows)
  /\ InitRest

\* varied column layouts and configurations with at most one row a side
InitSchema ==
  /\ \E pl \in PairLists, rn \in RenameMaps, ind \in IndicatorNames :
       config = [BaseConfig EXCEPT !.comparison_pairs = pl,
                                   !.rename_columns = rn,
                                   !.merge_indicator = ind]
  /\ df_internal \in LayoutFrames("internal")
  /\ df_provider \in LayoutFrames("provider")
  /\ InitRest

Init == InitData \/ InitSchema

\* Reconciler.reconcile(df_internal, df_provider) on this instance
Reconcile ==
  /\ ncalls < MaxCalls
  /\ \E r \in {reconcile(config, df_internal, df_provider)} :
        /\ error' = r.err
        /\ stages' = r.stages
        /\ merged' = r.merged
        /\ src' = r.src
        /\ results' = r.results
        /\ final' = r.final
        /\ df_internal' = r.left
        /\ df_provider' = r.right
  /\ again' = NoOutcome
  /\ pc' = "done"
  /\ ncalls' = ncalls + 1
  /\ UNCHANGED <<config, config0, given_internal, given_provider>>
  /\ UNCHANGED appvars

\* finalize_results applied to the tables reconcile returned
FinalizeAgain ==
  /\ pc = "done"
  /\ error = "none"
  /\ again' = finalize_results(final, config)
  /\ pc' = "refinalized"
  /\ UNCHANGED <<config, df_internal, df_provider, error, stages, merged, src,
                 results, final, ncalls, config0, given_internal, given_provider>>
  /\ UNCHANGED appvars

\* the caller drops the last outcome and loads two other files
Load ==
  /\ pc # "idle"
  /\ ncalls < MaxCalls
  /\ df_internal' \in ReloadFrames("internal")
  /\ df_provider' \in ReloadFrames("provider")
  /\ given_internal' = df_internal'
  /\ given_provider' = df_provider'
  /\ pc' = "idle"
  /\ error' = "none"
  /\ stages' = <<>>
  /\ merged' = NoFrame
  /\ src' = <<>>
  /\ results' = NoTables
  /\ final' = NoTables
  /\ again' = NoOutcome
  /\ UNCHANGED <<config, config0, ncalls>>
  /\ UNCHANGED appvars

Next == Reconcile \/ FinalizeAgain \/ Load

Spec == Init /\ [][Next]_vars

\* the web app: one browser session on the default configuration
InitApp ==
  /\ config = BaseConfig
  /\ df_internal = NoFrame
  /\ df_provider = NoFrame
  /\ InitRest

NextApp ==
  \/ UploadInternal
  \/ UploadProvider
  \/ RemoveInternal
  \/ RemoveProvider
  \/ RunClick
  \/ ClearClick

SpecApp == InitApp /\ [][NextApp]_vars

-----------------------------------------------------------------------------
(* Vocabulary of the properties *)

Called == pc # "idle"
MergeDone == Called /\ Len(stages) >= 2
Classified == Called /\ DOMAIN results = Categories
Returned == Called /\ error = "none"

IndexSet(df) == {df.index[i] : i \in 1..Len(df.index)}

MergedRows == 1..Len(merged.rows)

Marker(i) == Column(merged, config.merge_indicator)[i]

BothRows == {i \in MergedRows : Marker(i) = Text(config.merge_status.both)}

LeftValue(i, pair) == Column(merged, LeftCol(pair))[i]
RightValue(i, pair) == Column(merged, RightCol(pair))[i]

PairsOf(cfg) == {cfg.comparison_pairs[n] : n \in 1..Len(cfg.comparison_pairs)}

-----------------------------------------------------------------------------
(* Classifier *)

\* C1: every merged row lies in exactly one of the four categories, matched
\* and mismatched share no row, and matched together with mismatched is
\* exactly the set of rows whose origin marker is `both` -- for every
\* configuration, the empty comparison-pair list included.
C1_Partition ==
  Classified =>
    /\ \A i \in MergedRows :
         Cardinality({k \in Categories : i \in IndexSet(results[k])}) = 1
    /\ IndexSet(results["matched"]) \cap IndexSet(results["mismatched"]) = {}
    /\ IndexSet(results["matched"]) \cup IndexSet(results["mismatched"]) = BothRows

\* C2: with a non-empty comparison-pair list the classification is the
\* reference one: matched iff `both` and every pair's two values are equal,
\* mismatched iff `both` and some pair's two values differ, only_internal iff
\* `left_only`, only_provider iff `right_only`.
C2_Reference ==
  (Classified /\ config.comparison_pairs # <<>>) =>
    \A i \in MergedRows :
      /\ i \in IndexSet(results["matched"]) <=>
           (i \in BothRows /\ \A p \in PairsOf(config) :
                                 LeftValue(i, p) = RightValue(i, p))
      /\ i \in IndexSet(results["mismatched"]) <=>
           (i \in BothRows /\ \E p \in PairsOf(config) :
                                 LeftValue(i, p) # RightValue(i, p))
      /\ i \in IndexSet(results["only_internal"]) <=>
           Marker(i) = Text(config.merge_status.left_only)
      /\ i \in IndexSet(results["only_provider"]) <=>
           Marker(i) = Text(config.merge_status.right_only)

\* C3: with the empty comparison-pair list, mismatched is empty and matched
\* holds every row whose origin marker is `both`.
C3_EmptyPairs ==
  (Classified /\ config.comparison_pairs = <<>>) =>
    /\ results["mismatched"].rows = <<>>
    /\ IndexSet(results["matched"]) = BothRows

-----------------------------------------------------------------------------
(* Merger *)

KeyOf(df, i) == df.rows[i][FirstPos(df.cols, config.merge_key)]

KeysOf(df) == {KeyOf(df, i) : i \in 1..Len(df.rows)}

UniqueKeys(df) ==
  \A i, j \in 1..Len(df.rows) : KeyOf(df, i) = KeyOf(df, j) => i = j

RowsWithKey(k) == {n \in MergedRows : Column(merged, config.merge_key)[n] = k}

RowsOfInternal(i) == {n \in MergedRows : src[n][1] = i}
RowsOfProvider(j) == {n \in MergedRows : src[n][2] = j}

NeverSplit ==
  \A k \in KeysOf(given_internal) \cap KeysOf(given_provider) :
    \A n \in RowsWithKey(k) : Marker(n) = Text("both")

\* C4 as stated: every key of either input is in exactly one merged row, a
\* key of both inputs is never split, and every input record is in exactly
\* one merged row -- also when several rows share a key.
C4_ExactlyOne ==
  MergeDone =>
    /\ \A k \in KeysOf(given_internal) \cup KeysOf(given_provider) :
         Cardinality(RowsWithKey(k)) = 1
    /\ NeverSplit
    /\ \A i \in 1..Len(given_internal.rows) : Cardinality(RowsOfInternal(i)) = 1
    /\ \A j \in 1..Len(given_provider.rows) : Cardinality(RowsOfProvider(j)) = 1

\* C4 (amended): every key of either input is in at least one merged row, a
\* key of both inputs is never split into one-sided rows, every input record
\* is in at least one merged row, and merged rows come from the inputs only;
\* when no key value repeats within a dataset, "at least one" is "exactly
\* one".
C4_JoinComplete ==
  MergeDone =>
    /\ \A k \in KeysOf(given_internal) \cup KeysOf(given_provider) :
         RowsWithKey(k) # {}
    /\ NeverSplit
    /\ \A i \in 1..Len(given_internal.rows) : RowsOfInternal(i) # {}
    /\ \A j \in 1..Len(given_provider.rows) : RowsOfProvider(j) # {}
    /\ \A n \in MergedRows :
         Column(merged, config.merge_key)[n]
           \in KeysOf(given_internal) \cup KeysOf(given_provider)
    /\ (UniqueKeys(given_internal) /\ UniqueKeys(given_provider)) =>
         /\ \A k \in KeysOf(given_internal) \cup KeysOf(given_provider) :
              Cardinality(RowsWithKey(k)) = 1
         /\ \A i \in 1..Len(given_internal.rows) :
              Cardinality(RowsOfInternal(i)) = 1
         /\ \A j \in 1..Len(given_provider.rows) :
              Cardinality(RowsOfProvider(j)) = 1

\* a merge of key-unique inputs with a shared key and a key of each side only
C4_Witness ==
  /\ MergeDone
  /\ UniqueKeys(given_internal) /\ UniqueKeys(given_provider)
  /\ \E n \in MergedRows : Marker(n) = Text("both")
  /\ \E n \in MergedRows : Marker(n) = Text("left_only")
  /\ \E n \in MergedRows : Marker(n) = Text("right_only")

-----------------------------------------------------------------------------
(* Reconciler: errors and empty inputs *)

KeyMissing ==
  \/ ~Has(given_internal.cols, config.merge_key)
  \/ ~Has(given_provider.cols, config.merge_key)

\* C5: when the merge key column is absent from either dataset, reconcile
\* fails with the key-not-found error of the merge, unchanged; classify and
\* finalize are never entered and no table is returned.
C5_MissingKey ==
  (Called /\ KeyMissing) =>
    /\ error = "KeyError"
    /\ stages = <<"merge">>
    /\ results = NoTables
    /\ final = NoTables

\* a call on a provider dataset without the key column
C5_Witness ==
  /\ Called
  /\ Has(given_internal.cols, config.merge_key)
  /\ ~Has(given_provider.cols, config.merge_key)
  /\ given_internal.rows # <<>>
  /\ error = "KeyError"

NoRowsGiven == given_internal.rows = <<>> /\ given_provider.rows = <<>>

FourEmptyTables ==
  /\ error = "none"
  /\ DOMAIN final = Categories
  /\ \A k \in Categories : final[k].rows = <<>>

\* C6 as stated: reconcile on two datasets without rows raises nothing and
\* returns the four tables, each with zero rows.
C6_EmptyAny == (Called /\ NoRowsGiven) => FourEmptyTables

DistinctLabels(cols) == \A i, j \in 1..Len(cols) : cols[i] = cols[j] => i = j

\* the input contract: the merge key and every compared base column are
\* columns of both datasets, labels are distinct and stay distinct when the
\* shared ones are suffixed, and no column carries the indicator's name
InputContract ==
  /\ ~KeyMissing
  /\ DistinctLabels(given_internal.cols) /\ DistinctLabels(given_provider.cols)
  /\ \A j \in 1..Len(given_internal.cols) :
       LET c == given_internal.cols[j]
       IN (c # config.merge_key /\ Has(given_provider.cols, c)) =>
            /\ ~Has(given_internal.cols, c \o config.merge_suffixes[1])
            /\ ~Has(given_provider.cols, c \o config.merge_suffixes[2])
  /\ \A p \in PairsOf(config) :
       Has(given_internal.cols, p.base) /\ Has(given_provider.cols, p.base)
  /\ ~Has(given_internal.cols, config.merge_indicator)
  /\ ~Has(given_provider.cols, config.merge_indicator)

\* C6 (amended): reconcile on two datasets without rows that satisfy the
\* input contract (merge key and compared columns present in both, labels
\* distinct, none named as the indicator) raises nothing and returns the four tables, each with
\* zero rows.
C6_EmptyInputs == (Called /\ NoRowsGiven /\ InputContract) => FourEmptyTables

\* a call on two header-only datasets with both pairs compared
C6_Witness ==
  /\ Called /\ NoRowsGiven /\ InputContract
  /\ Len(config.comparison_pairs) = 2
  /\ FourEmptyTables

-----------------------------------------------------------------------------
(* Finalizer *)

RenamedLabel(c) ==
  IF c \in DOMAIN config.rename_columns THEN config.rename_columns[c] ELSE c

\* C7: finalize_results filters no row: the returned dictionary has the
\* classified dictionary's keys, each table has the classified table's rows
\* in the same order (same index), every classified cell outside the
\* indicator column is kept under its (renamed) label and no other cell
\* appears.
C7_NoRowFiltering ==
  Returned =>
    /\ DOMAIN final = DOMAIN results
    /\ \A k \in DOMAIN results :
         /\ final[k].index = results[k].index
         /\ Len(final[k].rows) = Len(results[k].rows)
         /\ \A i \in 1..Len(results[k].rows) :
              /\ \A j \in 1..Len(results[k].cols) :
                   results[k].cols[j] # config.merge_indicator =>
                     \E j2 \in 1..Len(final[k].cols) :
                       /\ final[k].cols[j2] = RenamedLabel(results[k].cols[j])
                       /\ final[k].rows[i][j2] = results[k].rows[i][j]
              /\ \A j2 \in 1..Len(final[k].cols) :
                   \E j \in 1..Len(results[k].cols) :
                     final[k].rows[i][j2] = results[k].rows[i][j]

\* a returned result whose matched table holds two equal rows and whose
\* only_provider table holds a row
C7_Witness ==
  /\ Returned
  /\ Len(results["matched"].rows) = 2
  /\ results["matched"].rows[1] = results["matched"].rows[2]
  /\ final["matched"].index = <<1, 2>>
  /\ final["only_provider"].rows # <<>>

ResultTagged ==
  \A k \in DOMAIN final :
    /\ ~Has(final[k].cols, config.merge_indicator)
    /\ Has(final[k].cols, "result")
    /\ \A i \in 1..Len(final[k].rows) : \A j \in 1..Len(final[k].cols) :
         final[k].cols[j] = "result" =>
           final[k].rows[i][j] = Text(config.result_labels[k])

\* C8 as stated: in every returned table, for any merge_indicator name and
\* any rename_columns map, the origin-marker column is absent and a column
\* `result` is present that holds the category's label in every row.
C8_AnyConfig == Returned => DOMAIN final = Categories /\ ResultTagged

\* the configuration leaves `result` alone: the indicator is not named
\* `result`, and rename_columns neither renames `result` nor renames
\* anything to `result` or to the indicator's name
ResultUntouched ==
  /\ config.merge_indicator # "result"
  /\ "result" \notin DOMAIN config.rename_columns
  /\ \A c \in DOMAIN config.rename_columns :
       config.rename_columns[c] \notin {"result", config.merge_indicator}

\* C8 (amended): in every returned table, for every configuration whose
\* merge_indicator is not named `result` and whose rename_columns map
\* neither has `result` as a key nor has `result` or the merge_indicator
\* name as a target, the origin-marker column is absent and a column
\* `result` is present that holds the category's label in every row.
C8_ResultTagged ==
  (Returned /\ ResultUntouched) => DOMAIN final = Categories /\ ResultTagged

\* a returned result under the display renames, with a matched row and an
\* input that already had a `result` column
C8_Witness ==
  /\ Returned /\ ResultUntouched
  /\ config.rename_columns = DisplayRenames
  /\ Has(given_internal.cols, "result")
  /\ final["mismatched"].rows # <<>>

-----------------------------------------------------------------------------
(* Reconciler: determinism *)

-----------------------------------------------------------------------------
(* Finalizer: idempotence *)

SameTables(a, b) ==
  /\ DOMAIN a = DOMAIN b
  /\ \A k \in DOMAIN a : a[k].cols = b[k].cols /\ a[k].rows = b[k].rows

\* C10 as stated: for every rename_columns map, finalize_results applied to
\* its own output returns tables with the same columns and rows.
C10_AnyMap ==
  pc = "refinalized" => again.err = "none" /\ SameTables(again.tables, final)

\* the tables are in final form: labels pairwise distinct, `result` present,
\* no column other than `result` named as the indicator, no label
\* rename_columns would change
FinalForm ==
  \A k \in DOMAIN final :
    /\ DistinctLabels(final[k].cols)
    /\ Has(final[k].cols, "result")
    /\ \A j \in 1..Len(final[k].cols) :
         /\ final[k].cols[j] = config.merge_indicator => final[k].cols[j] = "result"
         /\ RenamedLabel(final[k].cols[j]) = final[k].cols[j]

\* C10 (amended): finalize_results applied to its own output returns tables
\* with the same columns and rows whenever that output is in final form:
\* its column labels are pairwise distinct, `result` is among them, none
\* but `result` is the merge_indicator name and none is a rename_columns key
\* mapped to another name.
C10_Idempotent ==
  (pc = "refinalized" /\ FinalForm) =>
    again.err = "none" /\ SameTables(again.tables, final)

\* a second finalization of renamed tables that hold rows
C10_Witness ==
  /\ pc = "refinalized" /\ FinalForm
  /\ config.rename_columns = DisplayRenames
  /\ Has(final["matched"].cols, "Amount (Internal)")
  /\ final["matched"].rows # <<>>
  /\ final["only_internal"].rows # <<>>

-----------------------------------------------------------------------------
(* Web app: session datasets *)

PassedValidation(d) ==
  /\ ~IsEmpty(d.table)
  /\ \A n \in 1..Len(REQUIRED_COLUMNS) : Has(d.table.cols, REQUIRED_COLUMNS[n])

FailsValidation(file) ==
  \/ ~file.readable
  \/ IsEmpty(file.table)
  \/ \E n \in 1..Len(REQUIRED_COLUMNS) : ~Has(file.table.cols, REQUIRED_COLUMNS[n])

\* C11: after any sequence of uploads, removals, Run clicks and Clear
\* clicks, reconcile has been invoked only with both session datasets
\* non-None; a non-None session dataset is a readable, non-empty table with
\* all of transaction_reference, amount, status; while a widget holds a file
\* that fails validation the session dataset of that side is None, and a Run
\* pressed then is refused with the warning.
C11_SessionDatasets ==
  /\ run_outcome \in {"returned", "raised"} =>
       /\ ~invoked_with[1].none /\ ~invoked_with[2].none
       /\ invoked_with = <<ss_df_internal, ss_df_provider>>
  /\ ~ss_df_internal.none => PassedValidation(ss_df_internal)
  /\ ~ss_df_provider.none => PassedValidation(ss_df_provider)
  /\ (internal_file.present /\ FailsValidation(internal_file)) => ss_df_internal.none
  /\ (provider_file.present /\ FailsValidation(provider_file)) => ss_df_provider.none
  /\ (run_outcome # "none" /\ (ss_df_internal.none \/ ss_df_provider.none)) =>
       run_outcome = "warning"

\* a Run refused with the warning because the internal widget holds a file
\* without the status column, while the provider dataset is in the session
\* and an earlier Run had returned results
C11_Witness ==
  /\ run_outcome = "warning"
  /\ internal_file.present /\ internal_file.readable
  /\ ~IsEmpty(internal_file.table)
  /\ FailsValidation(internal_file)
  /\ ss_df_internal.none
  /\ ~ss_df_provider.none
  /\ ~ss_results.none

====
